---- MODULE Spec2Model ----
(***************************************************************************)
(* docker-getmail, run.py: the account loader, the protocol selector, the  *)
(* job configuration generator, the fetch runner and the daemon loop.      *)
(*                                                                         *)
(* Text is modelled as a sequence of one-character strings; the fixed      *)
(* texts that run.py writes itself (log prefixes, configuration keys) are  *)
(* single elements of such a sequence, so that no field value can spell    *)
(* them.                                                                   *)
(***************************************************************************)
EXTENDS Integers, Sequences, FiniteSets, TLC

\* ------------------------------------------------------------------ bounds
MaxLineLen == 6        \* longest generated account line (loader inputs)
MaxServerLen == 4      \* longest generated server name (selector inputs)
MaxCycles == 2         \* daemon cycles explored
MaxEdits == 1          \* edits of the account source by its owner
MaxEnvLen == 2         \* longest generated DELETE_AFTER_DAYS value

\* -------------------------------------------------------------- characters
Colon == ":"
Quote == "\""
Hash == "#"
Whitespace == {" "}
LineChars == {"a", Colon, Quote, " ", Hash}
ServerChars == {"p", "o", "P", "O", "x"}
EnvChars == {"-", "0", "7", "a"}

\* str.strip(): leading and trailing whitespace removed
RECURSIVE lstrip(_)
lstrip(s) == IF s # <<>> /\ s[1] \in Whitespace THEN lstrip(Tail(s)) ELSE s

RECURSIVE rstrip(_)
rstrip(s) ==
    IF s # <<>> /\ s[Len(s)] \in Whitespace
    THEN rstrip(SubSeq(s, 1, Len(s) - 1))
    ELSE s

strip(s) == rstrip(lstrip(s))

\* str.lower() on the characters of the model
LowerChar(c) == IF c = "P" THEN "p" ELSE IF c = "O" THEN "o" ELSE c

lower(s) == [i \in 1..Len(s) |-> LowerChar(s[i])]

\* `needle in hay` for two texts
Contains(hay, needle) ==
    \E i \in 1..(Len(hay) - Len(needle) + 1) :
        SubSeq(hay, i, i + Len(needle) - 1) = needle

\* re.sub(r'[^a-zA-Z0-9]', '_', s)
AlphaNum == {"a", "b", "c", "i", "p", "o", "x", "t", "u", "P", "O", "S", "T", "U"}

safe(s) == [i \in 1..Len(s) |-> IF s[i] \in AlphaNum THEN s[i] ELSE "_"]

\* --------------------------------------------------------- account loading
\* The ways r'^(.*?):"(.*?)":(.*?):(.*?)$' fits a line: <<i, j, k>> with :" at
\* i, ": at j and : at k, the four groups being the text around them.
Opens(line) == { i \in 1..(Len(line) - 1) : line[i] = Colon /\ line[i + 1] = Quote }

Closes(line, i) ==
    { j \in (i + 2)..(Len(line) - 1) : line[j] = Quote /\ line[j + 1] = Colon }

Splits(line, j) == { k \in (j + 2)..Len(line) : line[k] = Colon }

Fits(line) ==
    UNION { UNION { { <<i, j, k>> : k \in Splits(line, j) } : j \in Closes(line, i) }
            : i \in Opens(line) }

\* the order in which the backtracking matcher tries them: every group is lazy
Before(t, u) ==
    \/ t[1] < u[1]
    \/ t[1] = u[1] /\ t[2] < u[2]
    \/ t[1] = u[1] /\ t[2] = u[2] /\ t[3] <= u[3]

\* re.search: the first fit in the matcher's order, or none
\* every group greedy, as with (.*) in place of (.*?)
Last(fits) == CHOOSE x \in fits : \A y \in fits : Before(y, x)

First(fits) == CHOOSE x \in fits : \A y \in fits : Before(x, y)

re_search(line) ==
    IF Fits(line) = {}
    THEN [found |-> FALSE, g1 |-> <<>>, g2 |-> <<>>, g3 |-> <<>>, g4 |-> <<>>]
    ELSE LET t == First(Fits(line))
         IN  [found |-> TRUE,
              g1 |-> SubSeq(line, 1, t[1] - 1),
              g2 |-> SubSeq(line, t[1] + 2, t[2] - 1),
              g3 |-> SubSeq(line, t[2] + 2, t[3] - 1),
              g4 |-> SubSeq(line, t[3] + 1, Len(line))]

\* one line of the source, lines 73-87: what it contributes
parse_line(raw) ==
    LET line == strip(raw)
        m == re_search(line)
    IN  IF line = <<>> \/ line[1] = Hash
        THEN [accounts |-> <<>>, out |-> {}]
        ELSE IF m.found
        THEN [accounts |-> << [user |-> strip(m.g1),
                               password |-> m.g2,
                               server |-> strip(m.g3),
                               target |-> strip(m.g4)] >>,
              out |-> {}]
        ELSE [accounts |-> <<>>,
              out |-> { <<"Warning: Could not parse line strictly, skipping: ">> \o line }]

RECURSIVE parse_lines(_)
parse_lines(lines) ==
    IF lines = <<>>
    THEN [accounts |-> <<>>, out |-> {}]
    ELSE LET h == parse_line(Head(lines))
             r == parse_lines(Tail(lines))
         IN  [accounts |-> h.accounts \o r.accounts, out |-> h.out \cup r.out]

\* The account source: missing, present but not readable, or its lines.
\* parse_accounts returns the accounts and what it logged, or raises (open()).
parse_accounts(f) ==
    IF f.state = "missing"
    THEN [raised |-> FALSE, accounts |-> <<>>,
          out |-> { <<"Error: Accounts file not found at ", "ACCOUNTS_FILE">> }]
    ELSE IF f.state = "unreadable"
    THEN [raised |-> TRUE, accounts |-> <<>>, out |-> {}]
    ELSE [raised |-> FALSE,
          accounts |-> parse_lines(f.lines).accounts,
          out |-> parse_lines(f.lines).out]

\* the test without .lower()
detect_protocol_case_sensitive(server_address) ==
    IF Contains(server_address, <<"p", "o", "p">>)
    THEN "POP3_SSL"
    ELSE "IMAP4_SSL"

\* ------------------------------------------------------ protocol selection
detect_protocol(server_address) ==
    IF Contains(lower(server_address), <<"p", "o", "p">>)
    THEN "POP3_SSL"
    ELSE "IMAP4_SSL"

\* ------------------------------------------------------------------- state
VARIABLES
    mode,            \* "probe" (--dry-run) or "daemon"
    hook_url,        \* SUCCESS_HOOK_URL is set
    dry_delivery,    \* a dry-delivery option is set in the environment (never read)
    delete_after_env,            \* DELETE_AFTER_DAYS in the environment
    DEFAULT_DELETE_AFTER_DAYS,   \* the module global of lines 21-25
    retention_warnings,          \* times the warning of line 24 was printed
    file,            \* the account source at args.accounts
    edits,           \* edits of the source made so far by its owner
    pc,              \* where main() stands
    crashed_in,      \* the call an uncaught exception came out of
    accounts,        \* main: accounts, line 258
    current_accounts,\* main: current_accounts, line 274
    idx,             \* position of the for loops, lines 263 and 276
    cycle,           \* iterations of `while True` begun
    getmaildir,      \* GETMAIL_DIR exists on disk
    configs,         \* the job configuration files in GETMAIL_DIR, by name
    msmtprc,         \* times ~/.msmtprc has been written
    job,             \* the getmail subprocess being waited for
    log,             \* the lines printed so far
    snapshot,        \* the source as it was when main last went to load it
    secrets,         \* the passwords of the accounts loaded so far
    attempts,        \* positions run_fetch was called for in this cycle
    exits,           \* exit status of the jobs of this cycle
    hook_calls,      \* the cycles call_webhook issued its request in
    probes           \* the calls of dry_run_check: the account, and whether it connected

vars == << mode, hook_url, dry_delivery, delete_after_env, DEFAULT_DELETE_AFTER_DAYS,
           retention_warnings, file, edits, pc, crashed_in, accounts,
           current_accounts, idx, cycle, getmaildir, configs, msmtprc, job, log,
           snapshot, secrets, attempts, exits, hook_calls, probes >>

\* ------------------------------------------------- configuration at import
RetentionDefault == 7

Digits == {"0", "1", "2", "3", "4", "5", "6", "7", "8", "9"}

DigitValue(c) ==
    CASE c = "0" -> 0 [] c = "1" -> 1 [] c = "2" -> 2 [] c = "3" -> 3 [] c = "4" -> 4
      [] c = "5" -> 5 [] c = "6" -> 6 [] c = "7" -> 7 [] c = "8" -> 8 [] c = "9" -> 9

RECURSIVE Decimal(_)
Decimal(ds) ==
    IF ds = <<>> THEN 0
    ELSE 10 * Decimal(SubSeq(ds, 1, Len(ds) - 1)) + DigitValue(ds[Len(ds)])

\* int(text): optional sign, then digits; anything else is a ValueError
py_int(text) ==
    LET t == strip(text)
        signed == t # <<>> /\ t[1] \in {"-", "+"}
        ds == IF signed THEN Tail(t) ELSE t
    IN  IF ds # <<>> /\ \A i \in 1..Len(ds) : ds[i] \in Digits
        THEN [ok |-> TRUE,
              value |-> IF signed /\ t[1] = "-" THEN 0 - Decimal(ds) ELSE Decimal(ds)]
        ELSE [ok |-> FALSE, value |-> 0]

\* the environment variable: unset, or its text
Unset == [set |-> FALSE, text |-> <<>>]
SetTo(text) == [set |-> TRUE, text |-> text]

\* lines 21-25: the value DEFAULT_DELETE_AFTER_DAYS gets, and whether line 24 ran
delete_after_days(env) ==
    IF ~env.set
    THEN [value |-> RetentionDefault, warned |-> FALSE]
    ELSE IF py_int(env.text).ok
    THEN [value |-> py_int(env.text).value, warned |-> FALSE]
    ELSE [value |-> RetentionDefault, warned |-> TRUE]

\* lines 24 and 35-40: what the import prints
startup_log(env, url) ==
    { <<"--- Configuration ---">>,
      <<"ACCOUNTS_FILE: ", "ACCOUNTS_FILE">>,
      <<"SUCCESS_HOOK_URL: ", IF url THEN "Set" ELSE "Not set">>,
      <<"SENDER_EMAIL: ", "getmail@mailcow-fetcher.local">>,
      <<"FETCH_INTERVAL: ", "FETCH_INTERVAL">>,
      <<"---------------------">> }
    \cup (IF delete_after_days(env).warned
          THEN { <<"Warning: Invalid DELETE_AFTER_DAYS, defaulting to 7.">> }
          ELSE {})

\* ------------------------------------------------------- job configuration
SENDER_EMAIL == "getmail@mailcow-fetcher.local"
GETMAIL_DIR == "~/.getmail"

retriever_type(account) ==
    IF detect_protocol(account.server) = "IMAP4_SSL"
    THEN "SimpleIMAPSSLRetriever"
    ELSE IF detect_protocol(account.server) = "POP3_SSL"
    THEN "SimplePOP3SSLRetriever"
    ELSE "SimpleIMAPSSLRetriever"

\* the text generate_getmail_config writes, line by line
getmailrc(account) ==
    << <<"[retriever]">>,
       <<"type = ", retriever_type(account)>>,
       <<"server = ">> \o account.server,
       <<"username = ">> \o account.user,
       <<"password = ">> \o account.password,
       <<>>,
       <<"[destination]">>,
       <<"type = MDA_external">>,
       <<"path = /usr/bin/msmtp">>,
       <<"arguments = (\"-a\", \"default\", \"-f\", \"", SENDER_EMAIL, "\", \"">>
           \o account.target \o <<"\")">>,
       <<"ignore_stderr = true">>,
       <<>>,
       <<"[options]">>,
       <<"read_all = false">>,
       <<"delete = false">>,
       <<"delete_after = ", ToString(DEFAULT_DELETE_AFTER_DAYS)>>,
       <<"# getmail crashes if message_log is /dev/stdout because it tries to seek.">>,
       <<"# Using a file in the user directory or /dev/null is safer.">>,
       <<"message_log = /home/getmail/.getmail/getmail.log">> >>

\* a file named after the local target of the account
config_name_by_target(account) == <<"getmailrc_">> \o safe(account.target)

config_name(account) ==
    <<"getmailrc_">> \o safe(account.user) \o <<"_">> \o safe(account.server)

\* `"password =" in line`: only the key written by getmailrc spells it here
HasPasswordKey(line) == \E i \in 1..Len(line) : line[i] = "password = "

\* lines 230-238: the lines the diagnostic dump of a configuration logs
dump(name, content) ==
    { <<"--- Generated Config (">> \o name \o <<") ---">>,
      <<"------------------------------------------">> }
    \cup { IF HasPasswordKey(content[i])
           THEN <<"password = ********">>
           ELSE strip(content[i]) : i \in 1..Len(content) }

\* ---------------------------------------------------------- account sources
LineAlice == <<"a", Colon, Quote, "S", Quote, Colon, "i", Colon, "t">>
LinePop == <<"b", Colon, Quote, "S", Colon, "T", Quote, Colon, "p", "o", "p", Colon, "u">>
LineCarol == <<" ", "c", " ", Colon, Quote, "U", Quote, Colon, "x", Colon, "t", " ">>
LineAliceNew == <<"a", Colon, Quote, "T", Quote, Colon, "i", Colon, "u">>
LineBroken == <<"a", Colon, Quote, "T", Quote, Colon, "i">>
LineComment == <<Hash, " ", "a">>
LineDot == <<"a", ".", Colon, Quote, "S", Quote, Colon, "i", Colon, "t">>
LineUnder == <<"a", "_", Colon, Quote, "U", Quote, Colon, "i", Colon, "u">>

Present(lines) == [state |-> "present", lines |-> lines]
FileMissing == [state |-> "missing", lines |-> <<>>]
FileUnreadable == [state |-> "unreadable", lines |-> <<>>]
FileThree == Present(<<LineAlice, LinePop, LineCarol>>)
FileEdited == Present(<<LineComment, LineAliceNew, LineBroken>>)
FileEmpty == Present(<<>>)
FileCollide == Present(<<LineDot, LineUnder>>)

Files == {FileThree, FileEdited, FileEmpty, FileCollide, FileMissing, FileUnreadable}

NoJob == [active |-> FALSE, getmaildir |-> "", rcfile |-> <<>>, position |-> 0]

Passwords(accs) == { accs[i].password : i \in 1..Len(accs) }

\* the process after the import of run.py (lines 14-40), about to call main()
Start(f, m, h, d, e) ==
    /\ mode = m
    /\ hook_url = h
    /\ dry_delivery = d
    /\ delete_after_env = e
    /\ DEFAULT_DELETE_AFTER_DAYS = delete_after_days(e).value
    /\ retention_warnings = IF delete_after_days(e).warned THEN 1 ELSE 0
    /\ file = f
    /\ edits = 0
    /\ pc = "main"
    /\ crashed_in = "none"
    /\ accounts = <<>>
    /\ current_accounts = <<>>
    /\ idx = 0
    /\ cycle = 0
    /\ getmaildir = FALSE
    /\ configs = << >>
    /\ msmtprc = 0
    /\ job = NoJob
    /\ log = startup_log(e, h)
    /\ snapshot = f
    /\ secrets = {}
    /\ attempts = <<>>
    /\ exits = <<>>
    /\ hook_calls = <<>>
    /\ probes = <<>>

Init ==
    \E f \in Files, m \in {"probe", "daemon"}, h \in BOOLEAN, d \in BOOLEAN :
        Start(f, m, h, d, Unset)

\* ------------------------------------------------------------------- main
\* lines 257-259 (and 261/265: the branch on args.dry_run)
MainParse ==
    /\ pc = "main"
    /\ LET r == parse_accounts(file)
       IN  /\ snapshot' = file
           /\ accounts' = r.accounts
           /\ secrets' = secrets \cup Passwords(r.accounts)
           /\ IF r.raised
              THEN /\ pc' = "crashed"
                   /\ crashed_in' = "parse_accounts"
                   /\ log' = log \cup { <<"Parsing accounts...">> }
                   /\ idx' = idx
              ELSE /\ pc' = IF mode = "probe" THEN "probe" ELSE "msmtp"
                   /\ crashed_in' = crashed_in
                   /\ log' = log \cup r.out
                          \cup { <<"Parsing accounts...">>,
                                 <<"Found ", ToString(Len(r.accounts)), " accounts.">> }
                   /\ idx' = 1
    /\ UNCHANGED << mode, hook_url, dry_delivery, delete_after_env,
                    DEFAULT_DELETE_AFTER_DAYS, retention_warnings, file, edits, current_accounts, cycle,
                    getmaildir, configs, msmtprc, job, attempts, exits, hook_calls,
                    probes >>

\* a probe whose connection failure is not caught
dry_run_check_uncaught(outcome) ==
    /\ pc = "probe"
    /\ idx <= Len(accounts)
    /\ probes' = Append(probes, [account |-> accounts[idx], ok |-> outcome # "failed"])
    /\ idx' = idx + 1
    /\ pc' = IF outcome # "failed" THEN pc ELSE "crashed"
    /\ crashed_in' = IF outcome # "failed" THEN crashed_in ELSE "dry_run_check"
    /\ UNCHANGED << mode, hook_url, dry_delivery, delete_after_env,
                    DEFAULT_DELETE_AFTER_DAYS, retention_warnings, file, edits, accounts,
                    current_accounts, cycle, getmaildir, configs, msmtprc, job, log,
                    snapshot, secrets, attempts, exits, hook_calls >>

\* lines 100-137: one probe. `outcome`: the count was read ("found"), the
\* IMAP search was refused ("no_search"), or the session raised ("failed");
\* every exception is caught at line 136.
dry_run_check(outcome) ==
    /\ pc = "probe"
    /\ idx <= Len(accounts)
    /\ LET account == accounts[idx]
           protocol == detect_protocol(account.server)
           head == <<"[">> \o account.user \o <<"@">> \o account.server
                       \o <<"] Checking via ", protocol, "...">>
       IN  /\ outcome = "no_search" => protocol = "IMAP4_SSL"
           /\ probes' = Append(probes, [account |-> account, ok |-> outcome # "failed"])
           /\ log' = log \cup { head,
                       IF outcome = "failed" THEN <<"  -> Connection Failed: ", "e">>
                       ELSE IF outcome = "no_search" THEN <<"  -> Failed to search INBOX.">>
                       ELSE IF protocol = "IMAP4_SSL"
                       THEN <<"  -> Found ", "num_msgs", " messages in INBOX.">>
                       ELSE <<"  -> Found ", "num_msgs", " messages (Total size: ", "size",
                              " bytes).">> }
    /\ idx' = idx + 1
    /\ UNCHANGED << mode, hook_url, dry_delivery, delete_after_env,
                    DEFAULT_DELETE_AFTER_DAYS, retention_warnings, file, edits, pc, crashed_in, accounts,
                    current_accounts, cycle, getmaildir, configs, msmtprc, job,
                    snapshot, secrets, attempts, exits, hook_calls >>

Probe == \E outcome \in {"found", "no_search", "failed"} : dry_run_check(outcome)

\* line 263: the loop is over, main returns
ProbeExit ==
    /\ pc = "probe"
    /\ idx > Len(accounts)
    /\ pc' = "done"
    /\ UNCHANGED << mode, hook_url, dry_delivery, delete_after_env,
                    DEFAULT_DELETE_AFTER_DAYS, retention_warnings, file, edits, crashed_in, accounts,
                    current_accounts, idx, cycle, getmaildir, configs, msmtprc, job, log,
                    snapshot, secrets, attempts, exits, hook_calls, probes >>

\* lines 139-163 and 267-269; open() or chmod() may raise
configure_msmtp(ok) ==
    /\ pc = "msmtp"
    /\ log' = log \cup { <<"Writing msmtp config with SENDER_EMAIL=", SENDER_EMAIL>> }
    /\ IF ok
       THEN /\ msmtprc' = msmtprc + 1
            /\ pc' = "while"
            /\ crashed_in' = crashed_in
       ELSE /\ msmtprc' = msmtprc
            /\ pc' = "crashed"
            /\ crashed_in' = "configure_msmtp"
    /\ UNCHANGED << mode, hook_url, dry_delivery, delete_after_env,
                    DEFAULT_DELETE_AFTER_DAYS, retention_warnings, file, edits, accounts,
                    current_accounts, idx, cycle, getmaildir, configs, job,
                    snapshot, secrets, attempts, exits, hook_calls, probes >>

ConfigureMsmtp == \E ok \in BOOLEAN : configure_msmtp(ok)

\* a loop that keeps the list loaded at line 258
Reload_cached ==
    /\ pc = "while"
    /\ cycle < MaxCycles
    /\ cycle' = cycle + 1
    /\ pc' = "for"
    /\ current_accounts' = accounts
    /\ snapshot' = file
    /\ idx' = 1
    /\ attempts' = <<>>
    /\ exits' = <<>>
    /\ UNCHANGED << mode, hook_url, dry_delivery, delete_after_env,
                    DEFAULT_DELETE_AFTER_DAYS, retention_warnings, file, edits, crashed_in, accounts,
                    getmaildir, configs, msmtprc, job, log, secrets, hook_calls,
                    probes >>

\* a loop that writes the relay configuration again in every cycle
Reload_reconfiguring ==
    /\ pc = "while"
    /\ cycle < MaxCycles
    /\ cycle' = cycle + 1
    /\ ~parse_accounts(file).raised
    /\ snapshot' = file
    /\ secrets' = secrets \cup Passwords(parse_accounts(file).accounts)
    /\ log' = log \cup parse_accounts(file).out
    /\ msmtprc' = msmtprc + 1
    /\ pc' = "for"
    /\ current_accounts' = parse_accounts(file).accounts
    /\ idx' = 1
    /\ attempts' = <<>>
    /\ exits' = <<>>
    /\ UNCHANGED << mode, hook_url, dry_delivery, delete_after_env,
                    DEFAULT_DELETE_AFTER_DAYS, retention_warnings, file, edits, crashed_in, accounts,
                    getmaildir, configs, job, hook_calls, probes >>

\* a loop that removes the job configurations of accounts no longer listed
Reload_pruning ==
    /\ pc = "while"
    /\ cycle < MaxCycles
    /\ cycle' = cycle + 1
    /\ ~parse_accounts(file).raised
    /\ snapshot' = file
    /\ secrets' = secrets \cup Passwords(parse_accounts(file).accounts)
    /\ log' = log \cup parse_accounts(file).out
    /\ configs' = [n \in { m \in DOMAIN configs :
                              \E i \in 1..Len(parse_accounts(file).accounts) :
                                  m = config_name(parse_accounts(file).accounts[i]) }
                      |-> configs[n]]
    /\ pc' = "for"
    /\ current_accounts' = parse_accounts(file).accounts
    /\ idx' = 1
    /\ attempts' = <<>>
    /\ exits' = <<>>
    /\ UNCHANGED << mode, hook_url, dry_delivery, delete_after_env,
                    DEFAULT_DELETE_AFTER_DAYS, retention_warnings, file, edits, crashed_in, accounts,
                    getmaildir, msmtprc, job, hook_calls, probes >>

\* line 274: the accounts of this cycle
Reload ==
    /\ pc = "while"
    /\ cycle < MaxCycles
    /\ cycle' = cycle + 1
    /\ LET r == parse_accounts(file)
       IN  /\ snapshot' = file
           /\ secrets' = secrets \cup Passwords(r.accounts)
           /\ log' = log \cup r.out
           /\ IF r.raised
              THEN /\ pc' = "crashed"
                   /\ crashed_in' = "parse_accounts"
                   /\ UNCHANGED << current_accounts, idx >>
              ELSE /\ pc' = "for"
                   /\ crashed_in' = crashed_in
                   /\ current_accounts' = r.accounts
                   /\ idx' = 1
    /\ attempts' = <<>>
    /\ exits' = <<>>
    /\ UNCHANGED << mode, hook_url, dry_delivery, delete_after_env,
                    DEFAULT_DELETE_AFTER_DAYS, retention_warnings, file, edits, accounts, getmaildir,
                    configs, msmtprc, job, hook_calls, probes >>

\* a fetch runner that switches to a second state root under dry delivery
run_fetch_shadow(fault, msmtp) ==
    /\ pc = "for"
    /\ msmtp
    /\ idx <= Len(current_accounts)
    /\ fault = "none"
    /\ attempts' = Append(attempts, idx)
    /\ getmaildir' = TRUE
    /\ configs' = (config_name(current_accounts[idx]) :> getmailrc(current_accounts[idx]))
                      @@ configs
    /\ job' = [active |-> TRUE,
               getmaildir |-> IF dry_delivery THEN "/tmp/getmail" ELSE GETMAIL_DIR,
               rcfile |-> config_name(current_accounts[idx]), position |-> idx]
    /\ pc' = "running"
    /\ UNCHANGED << mode, hook_url, dry_delivery, delete_after_env,
                    DEFAULT_DELETE_AFTER_DAYS, retention_warnings, file, edits, crashed_in, accounts,
                    current_accounts, idx, cycle, msmtprc, log, snapshot, secrets,
                    exits, hook_calls, probes >>

\* a runner that keeps a configuration file it finds in place
run_fetch_keep_existing(fault, msmtp) ==
    /\ pc = "for"
    /\ idx <= Len(current_accounts)
    /\ fault = "none"
    /\ attempts' = Append(attempts, idx)
    /\ getmaildir' = TRUE
    /\ configs' = configs
                      @@ (config_name(current_accounts[idx]) :> getmailrc(current_accounts[idx]))
    /\ job' = [active |-> TRUE, getmaildir |-> GETMAIL_DIR,
               rcfile |-> config_name(current_accounts[idx]), position |-> idx]
    /\ pc' = "running"
    /\ UNCHANGED << mode, hook_url, dry_delivery, delete_after_env,
                    DEFAULT_DELETE_AFTER_DAYS, retention_warnings, file, edits, crashed_in, accounts,
                    current_accounts, idx, cycle, msmtprc, log, snapshot, secrets, exits,
                    hook_calls, probes >>

\* a runner that starts getmail without waiting for it
run_fetch_async(fault, msmtp) ==
    /\ pc = "for"
    /\ idx <= Len(current_accounts)
    /\ fault = "none"
    /\ msmtp
    /\ attempts' = Append(attempts, idx)
    /\ getmaildir' = TRUE
    /\ configs' = (config_name(current_accounts[idx]) :> getmailrc(current_accounts[idx]))
                      @@ configs
    /\ job' = [active |-> TRUE, getmaildir |-> GETMAIL_DIR,
               rcfile |-> config_name(current_accounts[idx]), position |-> idx]
    /\ exits' = Append(exits, 0)
    /\ idx' = idx + 1
    /\ UNCHANGED << mode, hook_url, dry_delivery, delete_after_env,
                    DEFAULT_DELETE_AFTER_DAYS, retention_warnings, file, edits, pc, crashed_in, accounts,
                    current_accounts, cycle, msmtprc, log, snapshot, secrets,
                    hook_calls, probes >>

\* a generator that reads DELETE_AFTER_DAYS again, and warns again, on every call
run_fetch_reading_env(fault, msmtp) ==
    /\ pc = "for"
    /\ idx <= Len(current_accounts)
    /\ fault = "none"
    /\ msmtp
    /\ attempts' = Append(attempts, idx)
    /\ getmaildir' = TRUE
    /\ configs' = (config_name(current_accounts[idx]) :> getmailrc(current_accounts[idx]))
                      @@ configs
    /\ retention_warnings' =
           retention_warnings + IF delete_after_days(delete_after_env).warned THEN 1 ELSE 0
    /\ job' = [active |-> TRUE, getmaildir |-> GETMAIL_DIR,
               rcfile |-> config_name(current_accounts[idx]), position |-> idx]
    /\ pc' = "running"
    /\ UNCHANGED << mode, hook_url, dry_delivery, delete_after_env,
                    DEFAULT_DELETE_AFTER_DAYS, file, edits, crashed_in, accounts,
                    current_accounts, idx, cycle, msmtprc, log, snapshot, secrets,
                    exits, hook_calls, probes >>

\* lines 203-245: run_fetch up to the start of the subprocess. `fault` is the
\* call that raises, if any: os.makedirs, the open() of generate_getmail_config,
\* the open() of the dump, or subprocess.run before getmail runs. `msmtp` is
\* whether /usr/bin/msmtp exists (lines 221-227).
run_fetch(fault, msmtp) ==
    /\ pc = "for"
    /\ idx <= Len(current_accounts)
    /\ fault = "makedirs" => ~getmaildir
    /\ LET account == current_accounts[idx]
           name == config_name(account)
           content == getmailrc(account)
           written == fault \notin {"makedirs", "write"}
           starting == <<"[">> \o account.user \o <<"] Starting fetch for account ">>
                           \o account.user \o <<"...">>
       IN  /\ attempts' = Append(attempts, idx)
           /\ getmaildir' = (getmaildir \/ fault # "makedirs")
           /\ configs' = IF written THEN (name :> content) @@ configs ELSE configs
           /\ log' = log
                      \cup (IF written THEN {starting} ELSE {})
                      \cup (IF written /\ ~msmtp
                            THEN { <<"CRITICAL ERROR: /usr/bin/msmtp not found inside container!">>,
                                   <<"shutil.which('msmtp') says: ", "alt_path">> }
                            ELSE {})
                      \cup (IF fault \in {"spawn", "none"} THEN dump(name, content) ELSE {})
           /\ IF fault = "none"
              THEN /\ job' = [active |-> TRUE, getmaildir |-> GETMAIL_DIR,
                              rcfile |-> name, position |-> idx]
                   /\ pc' = "running"
                   /\ crashed_in' = crashed_in
              ELSE /\ job' = job
                   /\ pc' = "crashed"
                   /\ crashed_in' = "run_fetch"
    /\ UNCHANGED << mode, hook_url, dry_delivery, delete_after_env,
                    DEFAULT_DELETE_AFTER_DAYS, retention_warnings, file, edits, accounts,
                    current_accounts, idx, cycle, msmtprc, snapshot, secrets, exits,
                    hook_calls, probes >>

RunFetch ==
    \E fault \in {"none", "makedirs", "write", "reread", "spawn"}, msmtp \in BOOLEAN :
        run_fetch(fault, msmtp)

\* CalledProcessError not caught: a non-zero exit leaves run_fetch by raising
getmail_exit_raising(status) ==
    /\ pc = "running"
    /\ exits' = Append(exits, status)
    /\ job' = NoJob
    /\ idx' = idx + 1
    /\ pc' = IF status = 0 THEN "for" ELSE "crashed"
    /\ crashed_in' = IF status = 0 THEN crashed_in ELSE "run_fetch"
    /\ UNCHANGED << mode, hook_url, dry_delivery, delete_after_env,
                    DEFAULT_DELETE_AFTER_DAYS, retention_warnings, file, edits, accounts,
                    current_accounts, cycle, getmaildir, configs, msmtprc, log,
                    snapshot, secrets, attempts, hook_calls, probes >>

\* the webhook called inside the for loop, after every account
getmail_exit_notifying(status) ==
    /\ pc = "running"
    /\ exits' = Append(exits, status)
    /\ job' = NoJob
    /\ idx' = idx + 1
    /\ pc' = "for"
    /\ hook_calls' = IF hook_url THEN Append(hook_calls, cycle) ELSE hook_calls
    /\ UNCHANGED << mode, hook_url, dry_delivery, delete_after_env,
                    DEFAULT_DELETE_AFTER_DAYS, retention_warnings, file, edits, crashed_in, accounts,
                    current_accounts, cycle, getmaildir, configs, msmtprc, log,
                    snapshot, secrets, attempts, probes >>

\* lines 245-247 and the return to line 276: getmail has exited with `status`
getmail_exit(status) ==
    /\ pc = "running"
    /\ LET account == current_accounts[idx]
       IN  log' = log \cup
               (IF status # 0
                THEN { <<"Error running getmail for ">> \o account.user
                         \o <<": Command '['getmail', '--getmaildir=", job.getmaildir,
                              "', '--rcfile=">> \o job.rcfile
                         \o <<"']' returned non-zero exit status ", ToString(status), ".">> }
                ELSE {})
    /\ exits' = Append(exits, status)
    /\ job' = NoJob
    /\ idx' = idx + 1
    /\ pc' = "for"
    /\ UNCHANGED << mode, hook_url, dry_delivery, delete_after_env,
                    DEFAULT_DELETE_AFTER_DAYS, retention_warnings, file, edits, crashed_in, accounts,
                    current_accounts, cycle, getmaildir, configs, msmtprc, snapshot,
                    secrets, attempts, hook_calls, probes >>

GetmailExit == \E status \in {0, 1} : getmail_exit(status)

\* lines 42-58: what call_webhook logs; `answer` is how the request ended
call_webhook(url, answer) ==
    IF ~url
    THEN {}
    ELSE { <<"Calling success webhook: ", "SUCCESS_HOOK_URL">>,
           IF answer = "status" THEN <<"  -> Webhook response status: ", "status">>
           ELSE IF answer = "URLError" THEN <<"  -> Webhook failed: ", "e">>
           ELSE <<"  -> An unexpected error occurred during webhook call: ", "e">> }

\* a notifier whose transport errors are not caught
finish_cycle_raising(answer) ==
    /\ pc = "for"
    /\ idx > Len(current_accounts)
    /\ hook_calls' = IF hook_url THEN Append(hook_calls, cycle) ELSE hook_calls
    /\ log' = log
    /\ pc' = IF hook_url /\ answer # "status" THEN "crashed" ELSE "sleep"
    /\ crashed_in' = IF hook_url /\ answer # "status" THEN "call_webhook" ELSE crashed_in
    /\ UNCHANGED << mode, hook_url, dry_delivery, delete_after_env,
                    DEFAULT_DELETE_AFTER_DAYS, retention_warnings, file, edits, accounts,
                    current_accounts, idx, cycle, getmaildir, configs, msmtprc, job,
                    snapshot, secrets, attempts, exits, probes >>

\* a notifier fired only after a cycle in which some job ran and none failed
finish_cycle_on_success(answer) ==
    /\ pc = "for"
    /\ idx > Len(current_accounts)
    /\ hook_calls' = IF hook_url /\ exits # <<>> /\ \A i \in 1..Len(exits) : exits[i] = 0
                     THEN Append(hook_calls, cycle)
                     ELSE hook_calls
    /\ log' = log
    /\ pc' = "sleep"
    /\ UNCHANGED << mode, hook_url, dry_delivery, delete_after_env,
                    DEFAULT_DELETE_AFTER_DAYS, retention_warnings, file, edits, crashed_in, accounts,
                    current_accounts, idx, cycle, getmaildir, configs, msmtprc, job,
                    snapshot, secrets, attempts, exits, probes >>

\* lines 279-283: the for loop is over
finish_cycle(answer) ==
    /\ pc = "for"
    /\ idx > Len(current_accounts)
    /\ hook_calls' = IF hook_url THEN Append(hook_calls, cycle) ELSE hook_calls
    /\ log' = log \cup (IF hook_url THEN call_webhook(hook_url, answer) ELSE {})
                  \cup { <<"Sleeping for ", "args.interval", " seconds...">> }
    /\ pc' = "sleep"
    /\ UNCHANGED << mode, hook_url, dry_delivery, delete_after_env,
                    DEFAULT_DELETE_AFTER_DAYS, retention_warnings, file, edits, crashed_in, accounts,
                    current_accounts, idx, cycle, getmaildir, configs, msmtprc, job,
                    snapshot, secrets, attempts, exits, probes >>

FinishCycle == \E answer \in {"status", "URLError", "other"} : finish_cycle(answer)

\* line 284: time.sleep returns
Wake ==
    /\ pc = "sleep"
    /\ pc' = "while"
    /\ UNCHANGED << mode, hook_url, dry_delivery, delete_after_env,
                    DEFAULT_DELETE_AFTER_DAYS, retention_warnings, file, edits, crashed_in, accounts,
                    current_accounts, idx, cycle, getmaildir, configs, msmtprc, job, log,
                    snapshot, secrets, attempts, exits, hook_calls, probes >>

\* The owner of the account source replaces it while the process runs. main()
\* only reads the source at lines 258 and 274, so an edit is placed where the
\* process waits: during the sleep and while a retrieval job runs.
EditFile ==
    /\ pc \in {"sleep", "running"}
    /\ edits < MaxEdits
    /\ edits' = edits + 1
    /\ file' \in Files \ {file}
    /\ UNCHANGED << mode, hook_url, dry_delivery, delete_after_env,
                    DEFAULT_DELETE_AFTER_DAYS, retention_warnings, pc, crashed_in, accounts,
                    current_accounts, idx, cycle, getmaildir, configs, msmtprc, job, log,
                    snapshot, secrets, attempts, exits, hook_calls, probes >>

Next ==
    \/ MainParse
    \/ Probe
    \/ ProbeExit
    \/ ConfigureMsmtp
    \/ Reload
    \/ RunFetch
    \/ GetmailExit
    \/ FinishCycle
    \/ Wake
    \/ EditFile

Spec == Init /\ [][Next]_vars

\* ------------------------------------------------- the loader on any source
\* every text of at most n characters
Texts(chars, n) == UNION { [1..k -> chars] : k \in 0..n }

\* one generated line between a well-formed line and one with spaces
LoaderInputs == { Present(<<LineAlice, l, LineCarol>>) : l \in Texts(LineChars, MaxLineLen) }

InitParse == \E f \in LoaderInputs : Start(f, "probe", FALSE, FALSE, Unset)

NextParse == MainParse

SpecParse == InitParse /\ [][NextParse]_vars

\* ------------------------------------------- the selector on any server name
ServerLine(server) ==
    <<"a", Colon, Quote, "S", Quote, Colon>> \o server \o <<Colon, "t">>

InitProto ==
    \E server \in Texts(ServerChars, MaxServerLen) :
        Start(Present(<<ServerLine(server)>>), "daemon", FALSE, FALSE, Unset)

NextProto ==
    \/ MainParse
    \/ ConfigureMsmtp
    \/ Reload
    \/ RunFetch

SpecProto == InitProto /\ [][NextProto]_vars

\* ---------------------------------------- the daemon on any retention value
EnvValues == {Unset} \cup { SetTo(t) : t \in Texts(EnvChars, MaxEnvLen) }

InitEnv == \E e \in EnvValues : Start(FileEdited, "daemon", FALSE, FALSE, e)

NextEnv ==
    \/ MainParse
    \/ ConfigureMsmtp
    \/ Reload
    \/ RunFetch
    \/ GetmailExit
    \/ FinishCycle
    \/ Wake

SpecEnv == InitEnv /\ [][NextEnv]_vars

\* ================================================================= claims

AllPositions(n) == [i \in 1..n |-> i]

\* C1: in daemon mode a failure inside one account's processing step (state
\* directory, job configuration file, start of the retrieval job) is caught at
\* the per-account boundary: it never ends the daemon loop.
C1_AccountFailureContained ==
    mode = "daemon" => ~(pc = "crashed" /\ crashed_in = "run_fetch")

\* C2: a retrieval job that exits non-zero does not abort the cycle. The step
\* in which the job of account k exits non-zero leaves run_fetch normally with
\* account k+1 next; the account fetched next is always the one after the last
\* job that exited, whatever its status; and a cycle that reaches its sleep has
\* attempted every account and, with a URL configured, fired the notifier.
C2_Continues ==
    /\ pc = "for" => idx = Len(exits) + 1 /\ attempts = AllPositions(Len(exits))
    /\ pc = "running" => idx = Len(exits) + 1 /\ attempts = AllPositions(idx)
    /\ pc = "sleep" =>
          /\ attempts = AllPositions(Len(current_accounts))
          /\ Len(exits) = Len(current_accounts)
          /\ hook_url => hook_calls # <<>> /\ hook_calls[Len(hook_calls)] = cycle

C2_ExitStep ==
    (pc = "running" /\ Len(exits') = Len(exits) + 1 /\ exits'[Len(exits')] # 0)
        => (pc' = "for" /\ idx' = idx + 1 /\ crashed_in' = "none" /\ ~job'.active)

C2_NonZeroExitDoesNotAbort == [](C2_Continues) /\ [][C2_ExitStep]_vars

C2_Witness ==
    /\ pc = "sleep"
    /\ hook_url
    /\ exits = <<0, 1, 0>>
    /\ attempts = <<1, 2, 3>>
    /\ hook_calls # <<>>

\* C3: with a URL configured the notifier is called exactly once per cycle, only
\* when every account of the cycle has been attempted and right before the
\* sleep of that cycle; with no URL configured it is never called.
CyclesFinished == IF pc \in {"sleep", "while"} \/ cycle = 0 THEN cycle ELSE cycle - 1

C3_OncePerFinishedCycle ==
    hook_calls = IF hook_url THEN AllPositions(CyclesFinished) ELSE <<>>

C3_NotifyStep ==
    hook_calls' # hook_calls =>
        /\ pc = "for" /\ pc' = "sleep"
        /\ attempts = AllPositions(Len(current_accounts))
        /\ Len(exits) = Len(current_accounts)
        /\ hook_calls' = Append(hook_calls, cycle)

C3_NotifierOncePerCycle == [](C3_OncePerFinishedCycle) /\ [][C3_NotifyStep]_vars

C3_Witness ==
    /\ hook_url
    /\ cycle = 2
    /\ pc = "sleep"
    /\ hook_calls = <<1, 2>>
    /\ Len(current_accounts) = 3

\* C4: the accounts processed in a cycle are exactly the accounts of the source
\* as read at the start of that cycle, and the job configuration written for
\* the account being fetched carries the fields read in that cycle.
C4_FreshEveryCycle ==
    /\ pc \in {"for", "running", "sleep"} =>
          current_accounts = parse_accounts(snapshot).accounts
    /\ pc = "running" =>
          /\ job.rcfile \in DOMAIN configs
          /\ configs[job.rcfile] = getmailrc(parse_accounts(snapshot).accounts[idx])

C4_Witness ==
    /\ cycle = 2
    /\ edits = 1
    /\ pc = "running"
    /\ snapshot = FileEdited
    /\ Len(accounts) = 3
    /\ current_accounts = << [user |-> <<"a">>, password |-> <<"T">>,
                              server |-> <<"i">>, target |-> <<"u">>] >>
    /\ configs[job.rcfile][5] = <<"password = ", "T">>

Mask == <<"password = ********">>

C6_NoPasswordInLog ==
    /\ \A l \in log : \A p \in secrets : p # <<>> => ~Contains(l, p)
    /\ pc = "running" =>
          \A i \in 1..Len(configs[job.rcfile]) :
              IF i = 5 THEN Mask \in log ELSE strip(configs[job.rcfile][i]) \in log

\* C7: loading the accounts never raises: a missing or unreadable source gives
\* an empty list and the cycle goes on with zero accounts.
C7_LoadNeverRaises ==
    /\ crashed_in # "parse_accounts"
    /\ (pc = "for" /\ snapshot.state # "present") => current_accounts = <<>>

\* C8: probe mode loads the accounts once, probes every loaded account exactly
\* once in file order whether or not earlier probes failed, and terminates; it
\* writes no job or relay configuration, starts no job, calls no notifier.
Probed == [i \in 1..Len(probes) |-> probes[i].account]

C8_ProbeOneShot ==
    mode = "probe" =>
        /\ configs = << >> /\ msmtprc = 0 /\ ~getmaildir
        /\ ~job.active /\ attempts = <<>> /\ hook_calls = <<>>
        /\ cycle = 0
        /\ pc \in {"main", "probe", "done", "crashed"}
        /\ pc = "probe" => Probed = SubSeq(accounts, 1, idx - 1)
        /\ pc \in {"done", "crashed"} => Probed = accounts
        /\ pc \in {"probe", "done"} => accounts = parse_accounts(snapshot).accounts
        /\ pc \in {"done", "crashed"} => ~ENABLED Next

C8_Witness ==
    /\ mode = "probe"
    /\ pc = "done"
    /\ Len(probes) = 3
    /\ ~probes[1].ok
    /\ probes[3].account = accounts[3]

\* C9: load returns, in file order, one account per non-blank, non-comment
\* line that has the shape user:"password":server:target and nothing for any
\* other line. The password is the text between the first :" and the ": that
\* follows it, verbatim; the rest is split at its first ':' into server and
\* target; user, server and target are trimmed.
FirstPair(s, a, b, from) ==
    LET at == { q \in from..(Len(s) - 1) : s[q] = a /\ s[q + 1] = b }
    IN  IF at = {} THEN 0 ELSE CHOOSE q \in at : \A r \in at : q <= r

FirstChar(s, a, from) ==
    LET at == { q \in from..Len(s) : s[q] = a }
    IN  IF at = {} THEN 0 ELSE CHOOSE q \in at : \A r \in at : q <= r

GrammarAccount(raw) ==
    LET line == strip(raw)
        i == FirstPair(line, Colon, Quote, 1)
        j == IF i = 0 THEN 0 ELSE FirstPair(line, Quote, Colon, i + 2)
        k == IF j = 0 THEN 0 ELSE FirstChar(line, Colon, j + 2)
    IN  IF line = <<>> \/ line[1] = Hash \/ k = 0
        THEN <<>>
        ELSE << [user |-> strip(SubSeq(line, 1, i - 1)),
                 password |-> SubSeq(line, i + 2, j - 1),
                 server |-> strip(SubSeq(line, j + 2, k - 1)),
                 target |-> strip(SubSeq(line, k + 1, Len(line)))] >>

RECURSIVE GrammarAccounts(_)
GrammarAccounts(lines) ==
    IF lines = <<>> THEN <<>>
    ELSE GrammarAccount(Head(lines)) \o GrammarAccounts(Tail(lines))

C9_LoadFollowsGrammar ==
    pc # "main" => accounts = GrammarAccounts(snapshot.lines)

C9_Witness ==
    /\ pc # "main"
    /\ Len(accounts) = 3
    /\ accounts[2].password = <<Colon>>
    /\ accounts[2].user = <<>>
    /\ accounts[3].user = <<"c">>

\* C10: the selector answers POP3_SSL exactly when the server name holds
\* "pop" in any mix of cases and the IMAP protocol otherwise, and the generated
\* job configuration names the POP3 driver exactly in the first case.
HasPop(s) ==
    \E i \in 1..(Len(s) - 2) :
        s[i] \in {"p", "P"} /\ s[i + 1] \in {"o", "O"} /\ s[i + 2] \in {"p", "P"}

C10_SelectorAndDriver ==
    \A i \in 1..Len(current_accounts) :
        LET account == current_accounts[i]
        IN  /\ detect_protocol(account.server) =
                   IF HasPop(account.server) THEN "POP3_SSL" ELSE "IMAP4_SSL"
            /\ config_name(account) \in DOMAIN configs =>
                   configs[config_name(account)][2] =
                       <<"type = ", IF HasPop(account.server)
                                    THEN "SimplePOP3SSLRetriever"
                                    ELSE "SimpleIMAPSSLRetriever">>

C10_Witness ==
    /\ pc = "running"
    /\ current_accounts[1].server = <<"x", "P", "o", "P">>
    /\ configs[job.rcfile][2] = <<"type = ", "SimplePOP3SSLRetriever">>

\* C11: when DELETE_AFTER_DAYS is not a valid integer, every job configuration
\* of every cycle carries delete_after = 7 and the warning about the value has
\* been printed exactly once, at startup.
NotAnInteger(env) ==
    /\ env.set
    /\ ~ \E k \in {0, 1} :
          /\ Len(strip(env.text)) > k
          /\ k = 1 => strip(env.text)[1] \in {"-", "+"}
          /\ \A i \in (k + 1)..Len(strip(env.text)) : strip(env.text)[i] \in Digits

RetentionWarning == <<"Warning: Invalid DELETE_AFTER_DAYS, defaulting to 7.">>

C11_InvalidRetentionDefaultsOnce ==
    /\ NotAnInteger(delete_after_env) =>
          /\ retention_warnings = 1
          /\ RetentionWarning \in log
          /\ \A n \in DOMAIN configs : configs[n][16] = <<"delete_after = ", "7">>
    /\ ~NotAnInteger(delete_after_env) => retention_warnings = 0 /\ RetentionWarning \notin log

C11_Witness ==
    /\ delete_after_env = SetTo(<<"7", "a">>)
    /\ cycle = 2
    /\ pc = "running"
    /\ configs[job.rcfile][16] = <<"delete_after = ", "7">>
    /\ retention_warnings = 1

\* C16: the delete_after value of every generated job configuration is an
\* integer greater than or equal to 0, whatever DELETE_AFTER_DAYS holds.
C16_RetentionNonNegative ==
    \A n \in DOMAIN configs :
        /\ configs[n][16] = <<"delete_after = ", ToString(DEFAULT_DELETE_AFTER_DAYS)>>
        /\ DEFAULT_DELETE_AFTER_DAYS >= 0

\* C12: within a cycle the accounts are fetched one after the other in file
\* order, each list entry once: a retrieval job is started only when none is
\* running and every earlier job of the cycle has exited, and no position is
\* fetched a second time in the cycle, failed or not.
C12_OneAtATime ==
    /\ job.active <=> pc = "running"
    /\ job.active => job.position = idx /\ Len(exits) = idx - 1
    /\ attempts = AllPositions(Len(attempts))
    /\ Len(attempts) <= Len(current_accounts)
    /\ Len(exits) <= Len(attempts) /\ Len(attempts) <= Len(exits) + 1

C12_StartStep ==
    (job'.active /\ job' # job) =>
        /\ ~job.active
        /\ job'.position = Len(exits) + 1
        /\ job'.position = Len(attempts) + 1
        /\ job'.rcfile = config_name(current_accounts[job'.position])

C12_SequentialFetch == [](C12_OneAtATime) /\ [][C12_StartStep]_vars

C12_Witness ==
    /\ pc = "running"
    /\ job.position = 3
    /\ exits = <<1, 0>>
    /\ attempts = <<1, 2, 3>>

\* C13: a failed notification is not propagated and not retried: the step of
\* the notifier, however the request ended, leads to the sleep with nothing but
\* the log and the record of the call changed, and the next cycle starts from
\* the sleep as after a successful call.
WebhookFailed == <<"  -> Webhook failed: ", "e">>

C13_NeverTwicePerCycle ==
    /\ \A i, j \in 1..Len(hook_calls) : i < j => hook_calls[i] < hook_calls[j]
    /\ crashed_in \in {"none", "parse_accounts", "configure_msmtp", "run_fetch"}
    /\ pc = "sleep" => ENABLED Wake

C13_NotifyStep ==
    (pc = "for" /\ idx > Len(current_accounts) /\ pc' # pc) =>
        /\ pc' = "sleep"
        /\ crashed_in' = crashed_in
        /\ hook_url => hook_calls' = Append(hook_calls, cycle)
        /\ UNCHANGED << current_accounts, idx, cycle, configs, job, attempts, exits >>

C13_NotifierFailureContained == [](C13_NeverTwicePerCycle) /\ [][C13_NotifyStep]_vars

C13_Witness ==
    /\ hook_url
    /\ cycle = 2
    /\ pc = "running"
    /\ WebhookFailed \in log
    /\ hook_calls = <<1>>

\* C17: in daemon mode the relay client configuration is written exactly once,
\* before the first retrieval job of the first cycle, and never again; in probe
\* mode it is never written.
C17_RelayConfigState ==
    /\ msmtprc <= 1
    /\ mode = "probe" => msmtprc = 0
    /\ (cycle >= 1 \/ pc \in {"while", "for", "running", "sleep"}) => msmtprc = 1
    /\ (job.active \/ attempts # <<>> \/ DOMAIN configs # {}) => msmtprc = 1

C17_RelayConfigStep == msmtprc' # msmtprc => (pc = "msmtp" /\ cycle = 0 /\ msmtprc = 0)

C17_RelayConfigOnce == [](C17_RelayConfigState) /\ [][C17_RelayConfigStep]_vars

C17_Witness ==
    /\ mode = "daemon"
    /\ cycle = 2
    /\ pc = "running"
    /\ idx = 2
    /\ msmtprc = 1

\* C19: with a URL configured the notifier is fired at the end of a cycle that
\* loaded no account (source missing or empty) and at the end of a cycle in
\* which every retrieval job exited non-zero.
C19_NotifiedWithoutSuccess ==
    (/\ hook_url
     /\ pc = "sleep"
     /\ \/ current_accounts = <<>>
        \/ \A i \in 1..Len(exits) : exits[i] # 0)
    => (hook_calls # <<>> /\ hook_calls[Len(hook_calls)] = cycle)

C19_Witness ==
    /\ hook_url
    /\ pc = "sleep"
    /\ cycle = 2
    /\ accounts = <<>>
    /\ <<"Error: Accounts file not found at ", "ACCOUNTS_FILE">> \in log
    /\ exits = <<1, 1, 1>>
    /\ hook_calls = <<1, 2>>

\* C20: no step deletes a job configuration file: the files only grow in
\* number, a step changes at most the file of the account being fetched, and
\* the file of an account removed from the source stays as it was written.
C20_FilesKept ==
    /\ DOMAIN configs \subseteq DOMAIN configs'
    /\ \A n \in DOMAIN configs :
          configs'[n] # configs[n] =>
              (pc = "for" /\ idx <= Len(current_accounts)
               /\ n = config_name(current_accounts[idx]))

C20_NoConfigDeleted == [][C20_FilesKept]_vars

C20_Witness ==
    /\ cycle = 2
    /\ pc = "sleep"
    /\ snapshot = FileEdited
    /\ config_name(parse_line(LinePop).accounts[1]) \in DOMAIN configs
    /\ configs[config_name(parse_line(LinePop).accounts[1])][5]
           = <<"password = ", "S", Colon, "T">>
    /\ \A i \in 1..Len(current_accounts) : current_accounts[i].user # <<"b">>

\* C14: every account the loader returns has a non-empty user, password,
\* server and target.
C14_FieldsNonEmpty ==
    pc # "main" =>
        \A i \in 1..Len(accounts) :
            /\ accounts[i].user # <<>>
            /\ accounts[i].password # <<>>
            /\ accounts[i].server # <<>>
            /\ accounts[i].target # <<>>

\* C15 as stated: two accounts of the loaded list that differ in any field
\* have different configuration file paths.
C15_OwnFile ==
    \A i, j \in 1..Len(current_accounts) :
        current_accounts[i] # current_accounts[j] =>
            config_name(current_accounts[i]) # config_name(current_accounts[j])

\* C15 as the code has it: the path depends on the user and the server only,
\* through the replacement of every character outside [A-Za-z0-9]. Two accounts
\* whose users and servers are alphanumeric and differ in user or server have
\* different paths; accounts that share a path overwrite each other in list
\* order, so after a cycle the path holds the last of them.
Alphanumeric(text) == \A i \in 1..Len(text) : text[i] \notin {".", "_", Colon, Quote, " ", Hash}

Sanitized(text) ==
    [i \in 1..Len(text) |-> IF text[i] \in {".", "_", Colon, Quote, " ", Hash} THEN "_" ELSE text[i]]

Path(account) == <<"getmailrc_">> \o Sanitized(account.user) \o <<"_">> \o Sanitized(account.server)

LastAt(path) ==
    CHOOSE i \in 1..Len(current_accounts) :
        /\ Path(current_accounts[i]) = path
        /\ \A j \in (i + 1)..Len(current_accounts) : Path(current_accounts[j]) # path

C15_PathByUserAndServer ==
    /\ \A i, j \in 1..Len(current_accounts) :
          (/\ Alphanumeric(current_accounts[i].user) /\ Alphanumeric(current_accounts[i].server)
           /\ Alphanumeric(current_accounts[j].user) /\ Alphanumeric(current_accounts[j].server)
           /\ \/ current_accounts[i].user # current_accounts[j].user
              \/ current_accounts[i].server # current_accounts[j].server)
          => config_name(current_accounts[i]) # config_name(current_accounts[j])
    /\ \A i \in 1..Len(current_accounts) :
          config_name(current_accounts[i]) = Path(current_accounts[i])
    /\ pc = "sleep" =>
          \A i \in 1..Len(current_accounts) :
              /\ Path(current_accounts[i]) \in DOMAIN configs
              /\ configs[Path(current_accounts[i])]
                     = getmailrc(current_accounts[LastAt(Path(current_accounts[i]))])

C15_Witness ==
    /\ pc = "sleep"
    /\ snapshot = FileCollide
    /\ Len(current_accounts) = 2
    /\ current_accounts[1].user = <<"a", ".">>
    /\ current_accounts[2].user = <<"a", "_">>
    /\ configs[Path(current_accounts[1])][5] = <<"password = ", "U">>
    /\ configs[Path(current_accounts[1])][4] = <<"username = ", "a", "_">>

\* C18: when the retrieval job of an account starts, the configuration file
\* named in its arguments holds that account's server, user, password and
\* target, whatever the file held before the call, and keeps them while the
\* job runs; also for accounts that share a configuration name.
Holds(content, account) ==
    /\ content[3] = <<"server = ">> \o account.server
    /\ content[4] = <<"username = ">> \o account.user
    /\ content[5] = <<"password = ">> \o account.password
    /\ SubSeq(content[10], 4, Len(content[10]) - 1) = account.target

C18_Running ==
    job.active =>
        /\ job.rcfile \in DOMAIN configs
        /\ job.position \in 1..Len(current_accounts)
        /\ Holds(configs[job.rcfile], current_accounts[job.position])

C18_StartStep ==
    (job'.active /\ ~job.active) =>
        /\ job'.position = idx
        /\ attempts' = Append(attempts, idx)
        /\ job'.rcfile \in DOMAIN configs'
        /\ Holds(configs'[job'.rcfile], current_accounts[idx])

C18_JobReadsOwnConfig == [](C18_Running) /\ [][C18_StartStep]_vars

C18_Witness ==
    /\ pc = "running"
    /\ snapshot = FileCollide
    /\ job.position = 2
    /\ job.rcfile = config_name(current_accounts[1])
    /\ current_accounts[1].password = <<"S">>
    /\ configs[job.rcfile][5] = <<"password = ", "U">>
    /\ configs[job.rcfile][10][4] = "u"

====
